---- MODULE Spec2Model ----
(***************************************************************************)
(* Model of routes/subscription.go: the SubscriptionHandler of wakapi.     *)
(*                                                                         *)
(* One request is served at a time (the handlers share no mutable state).  *)
(* Every serving action replaces the request-scoped variables: the request *)
(* itself, what the provider answers on this request, the header writes on *)
(* the http.ResponseWriter, the outbound library/provider calls in the     *)
(* order they were made, and the log lines in the order they were logged.  *)
(* Strings are TLA+ strings; fmt.Sprintf is modelled as concatenation.     *)
(***************************************************************************)
EXTENDS Integers, Sequences, FiniteSets, TLC

VARIABLES
    config,        \* h.config, fixed at construction
    registered,    \* RegisterRoutes has run
    routes,        \* routes registered on the router, in registration order
    userStore,     \* persisted users behind h.userSrvc: user ID -> subscription state
    handler,       \* what served the last request
    request,       \* the last request
    env,           \* what the provider answered on the last request
    response,      \* header writes on the ResponseWriter, in order
    calls,         \* outbound calls of the last request, in order
    logs,          \* log lines of the last request, in order
    reloaded       \* the last request reloaded the templates (loadTemplates)

vars == <<config, registered, routes, userStore, handler, request, env, response, calls, logs, reloaded>>

(***************************************************************************)
(* Bounds and input sets                                                   *)
(***************************************************************************)
MaxResults == 2          \* customers a provider search returns at most

MaxBodyBytes == 65536    \* http.MaxBytesReader(w, r.Body, int64(65536))

StatusOK == 200
StatusSeeOther == 303
StatusFound == 302
StatusBadRequest == 400
StatusServiceUnavailable == 503

BasePaths == {"", "/wakapi"}
PublicUrls == {"https://x.test", "http://localhost:3000"}
PriceIds == {"price_123"}
EndpointSecrets == {"whsec_live"}

NoPrincipal == [ID |-> "", Email |-> "", Authenticated |-> FALSE]
Principals ==
    { [ID |-> "u1", Email |-> "", Authenticated |-> TRUE],
      [ID |-> "u2", Email |-> "a@b.com", Authenticated |-> TRUE] }

CustomerIds == {"cus_1", "cus_2"}
Customer(id, email) == [ID |-> id, Email |-> email]

SessionUrls == {"https://provider.test/s/1", "https://provider.test/s/2"}

Methods == {"GET", "POST"}
Paths ==
    { "/subscription/success", "/subscription/cancel", "/subscription/webhook",
      "/subscription/checkout", "/subscription/portal", "/subscription/other" }

SubscriptionEventTypes ==
    { "customer.subscription.deleted",
      "customer.subscription.updated",
      "customer.subscription.created" }
EventTypes == SubscriptionEventTypes \cup {"invoice.paid", "customer.created"}

BodySizes == {0, MaxBodyBytes - 1, MaxBodyBytes, MaxBodyBytes + 1}

\* All sequences over S of length 0..n
SeqsUpTo(S, n) == UNION { [1..k -> S] : k \in 0..n }

(***************************************************************************)
(* Response writes, calls and log lines                                    *)
(***************************************************************************)
WriteHeader(status) == [status |-> status, location |-> ""]

\* http.Redirect(w, r, url, code)
Redirect(url, code) == [status |-> code, location |-> url]

Call(op, params) == [op |-> op, params |-> params]

LogLine(level, format, args) == [level |-> level, format |-> format, args |-> args]

NoOutcome == [response |-> <<>>, calls |-> <<>>, logs |-> <<>>, reloaded |-> FALSE]

\* fmt.Sprintf("%s/settings?error=%s#subscription", h.config.Server.BasePath, msg)
SettingsErrorUrl(cfg, msg) == cfg.BasePath \o "/settings?error=" \o msg \o "#subscription"

MsgMissingEmail == "missing e-mail address"
MsgMissingForm == "missing form values"
MsgWentWrong == "something went wrong"
MsgNoSubscription == "no subscription found with your e-mail address, please contact us!"

\* if h.config.IsDev() { loadTemplates() }
ReloadsTemplates(cfg) == cfg.IsDev

\* A handler that lost its e-mail guard
EmailMissing_Never(user) == FALSE

\* user.Email == ""
EmailMissing(user) == user.Email = ""

(***************************************************************************)
(* PostCheckout                                                            *)
(***************************************************************************)
\* The callback URL without the configured path prefix
CallbackUrl_NoBasePath(cfg, suffix) == cfg.PublicUrl \o "/subscription/" \o suffix

\* fmt.Sprintf("%s%s/subscription/<suffix>", h.config.Server.PublicUrl, h.config.Server.BasePath)
CallbackUrl(cfg, suffix) == cfg.PublicUrl \o cfg.BasePath \o "/subscription/" \o suffix

\* checkoutParams := &stripe.CheckoutSessionParams{...}
CheckoutParams(cfg, user) ==
    [ Mode              |-> "subscription",
      LineItems         |-> << [Price |-> cfg.StandardPriceId, Quantity |-> 1] >>,
      CustomerEmail     |-> user.Email,
      ClientReferenceID |-> user.Email,
      SuccessURL        |-> CallbackUrl(cfg, "success"),
      CancelURL         |-> CallbackUrl(cfg, "cancel") ]

LogCheckoutFailed == LogLine("error", "failed to create stripe checkout session: %v", <<>>)

\* PostCheckout trying the session creation a second time after a failure
PostCheckout_Retry(cfg, user, req, e) ==
    LET new == Call("checkout.session.New", CheckoutParams(cfg, user)) IN
    IF EmailMissing(user) THEN
        [ NoOutcome EXCEPT !.reloaded = ReloadsTemplates(cfg),
            !.response = << Redirect(SettingsErrorUrl(cfg, MsgMissingEmail), StatusFound) >> ]
    ELSE IF ~req.formOk THEN
        [ NoOutcome EXCEPT !.reloaded = ReloadsTemplates(cfg),
            !.response = << Redirect(SettingsErrorUrl(cfg, MsgMissingForm), StatusFound) >> ]
    ELSE IF e.checkoutErr THEN
        [ NoOutcome EXCEPT !.reloaded = ReloadsTemplates(cfg),
            !.calls = << new, new >>,
            !.logs = << LogCheckoutFailed >>,
            !.response = << Redirect(SettingsErrorUrl(cfg, MsgWentWrong), StatusFound) >> ]
    ELSE
        [ NoOutcome EXCEPT !.reloaded = ReloadsTemplates(cfg),
            !.calls = << new >>,
            !.response = << Redirect(e.sessionUrl, StatusSeeOther) >> ]

\* func (h *SubscriptionHandler) PostCheckout(w, r)
PostCheckout(cfg, user, req, e) ==
    LET new == Call("checkout.session.New", CheckoutParams(cfg, user)) IN
    IF EmailMissing(user) THEN
        [ NoOutcome EXCEPT !.reloaded = ReloadsTemplates(cfg),
            !.response = << Redirect(SettingsErrorUrl(cfg, MsgMissingEmail), StatusFound) >> ]
    ELSE IF ~req.formOk THEN
        [ NoOutcome EXCEPT !.reloaded = ReloadsTemplates(cfg),
            !.response = << Redirect(SettingsErrorUrl(cfg, MsgMissingForm), StatusFound) >> ]
    ELSE IF e.checkoutErr THEN
        [ NoOutcome EXCEPT !.reloaded = ReloadsTemplates(cfg),
            !.calls = << new >>,
            !.logs = << LogCheckoutFailed >>,
            !.response = << Redirect(SettingsErrorUrl(cfg, MsgWentWrong), StatusFound) >> ]
    ELSE
        [ NoOutcome EXCEPT !.reloaded = ReloadsTemplates(cfg),
            !.calls = << new >>,
            !.response = << Redirect(e.sessionUrl, StatusSeeOther) >> ]

(***************************************************************************)
(* PostPortal                                                              *)
(***************************************************************************)
NoCustomer == Customer("", "")

\* Query: fmt.Sprintf(`email:"%s"`, email)
SearchQuery(email) == "email:\"" \o email \o "\""

\* Taking the last customer of the result page instead of the first
findStripeCustomerByEmail_Last(email, e) ==
    IF e.searchErr THEN [err |-> TRUE, customer |-> NoCustomer]
    ELSE IF Len(e.searchResults) > 0
         THEN [err |-> FALSE, customer |-> e.searchResults[Len(e.searchResults)]]
         ELSE [err |-> TRUE, customer |-> NoCustomer]

\* func (h *SubscriptionHandler) findStripeCustomerByEmail(email): results.Err(),
\* then results.Next() / results.Customer() once
findStripeCustomerByEmail(email, e) ==
    IF e.searchErr THEN [err |-> TRUE, customer |-> NoCustomer]
    ELSE IF Len(e.searchResults) > 0
         THEN [err |-> FALSE, customer |-> e.searchResults[1]]
         ELSE [err |-> TRUE, customer |-> NoCustomer]

\* portalParams := &stripe.BillingPortalSessionParams{...}
PortalParams(cfg, customer) == [Customer |-> customer.ID, ReturnURL |-> cfg.PublicUrl]

LogPortalFailed == LogLine("error", "failed to create stripe portal session: %v", <<>>)

\* func (h *SubscriptionHandler) PostPortal(w, r)
PostPortal(cfg, user, req, e) ==
    LET search == Call("customer.Search", [Query |-> SearchQuery(user.Email)])
        found  == findStripeCustomerByEmail(user.Email, e)
        new    == Call("billingportal.session.New", PortalParams(cfg, found.customer))
    IN
    IF EmailMissing(user) THEN
        [ NoOutcome EXCEPT !.reloaded = ReloadsTemplates(cfg),
            !.response = << Redirect(SettingsErrorUrl(cfg, MsgNoSubscription), StatusFound) >> ]
    ELSE IF found.err THEN
        [ NoOutcome EXCEPT !.reloaded = ReloadsTemplates(cfg),
            !.calls = << search >>,
            !.response = << Redirect(SettingsErrorUrl(cfg, MsgNoSubscription), StatusFound) >> ]
    ELSE IF e.portalErr THEN
        [ NoOutcome EXCEPT !.reloaded = ReloadsTemplates(cfg),
            !.calls = << search, new >>,
            !.logs = << LogPortalFailed >>,
            !.response = << Redirect(SettingsErrorUrl(cfg, MsgWentWrong), StatusFound) >> ]
    ELSE
        [ NoOutcome EXCEPT !.reloaded = ReloadsTemplates(cfg),
            !.calls = << search, new >>,
            !.response = << Redirect(e.sessionUrl, StatusSeeOther) >> ]

(***************************************************************************)
(* PostWebhook                                                             *)
(***************************************************************************)
\* The payload of a webhook request: an event, or bytes that are no event
NoRaw == [parses |-> FALSE, ID |-> "", Customer |-> ""]
NoEvent == [Type |-> "", Raw |-> NoRaw, wellFormed |-> FALSE]
Raws == {NoRaw} \cup { [parses |-> TRUE, ID |-> "sub_1", Customer |-> c] : c \in CustomerIds }
Events == {NoEvent} \cup { [Type |-> t, Raw |-> r, wellFormed |-> TRUE] : t \in EventTypes, r \in Raws }

\* The Stripe-Signature header: absent, or a signature made with some key at some time
NoSignature == [key |-> "", fresh |-> FALSE]
Signatures == {NoSignature} \cup [key : EndpointSecrets \cup {"whsec_other"}, fresh : BOOLEAN]

\* A size cap that lets one byte too many through
BodyTooLarge_OffByOne(n) == n > MaxBodyBytes + 1

\* http.MaxBytesReader(w, r.Body, int64(65536)): reading past the cap fails
BodyTooLarge(n) == n > MaxBodyBytes

\* payload, err := ioutil.ReadAll(bodyReader)
ReadAllFails(req) == req.readErr \/ BodyTooLarge(req.bodyLen)

\* webhook.ConstructEventWithOptions(payload, r.Header.Get("Stripe-Signature"), secret, ...)
ConstructEvent(payload, signature, secret) ==
    IF payload.wellFormed /\ signature # NoSignature /\ signature.key = secret /\ signature.fresh
    THEN [err |-> FALSE, event |-> payload]
    ELSE [err |-> TRUE, event |-> NoEvent]

\* A handler that goes on with the event whatever the verification said
VerificationFailed_Ignored(constructed) == FALSE

\* if err != nil, after ConstructEventWithOptions
VerificationFailed(constructed) == constructed.err

\* One more event type routed to the subscription case
IsSubscriptionEvent_Wider(type) ==
    type \in { "customer.subscription.deleted", "customer.subscription.updated",
               "customer.subscription.created", "customer.created" }

\* case "customer.subscription.deleted", "customer.subscription.updated", "customer.subscription.created"
IsSubscriptionEvent(type) ==
    type \in { "customer.subscription.deleted", "customer.subscription.updated",
               "customer.subscription.created" }

FmtReadFailed == "error in stripe webhook request: %v"
FmtVerifyFailed == "stripe webhook signature verification failed: %v"
FmtParseFailed == "failed to parse stripe webhook payload: %v"
FmtFetchFailed == "failed to fetch stripe customer (%s): %v"
FmtAssociated == "associated stripe customer %s with user %s"
FmtReceived == "received stripe subscription event of type '%s' for subscription '%d' (customer '%s' with email '%s')."
FmtNoHandler == "got stripe event '%s' with no handler defined"

\* func (h *SubscriptionHandler) handleParseSubscription(w, r, event)
\* A payload that parses carries the reference to its customer, as the
\* provider's subscription objects do.
handleParseSubscription(event, e) ==
    LET unmarshal    == Call("json.Unmarshal", [Raw |-> event.Raw])
        subscription == [ID |-> event.Raw.ID, Customer |-> [ID |-> event.Raw.Customer]]
        get          == Call("customer.Get", [ID |-> subscription.Customer.ID])
        customer     == Customer(subscription.Customer.ID, e.customerEmail)
    IN
    IF ~event.Raw.parses THEN
        [ err |-> TRUE, subscription |-> [ID |-> "", Customer |-> [ID |-> ""]], customer |-> NoCustomer,
          calls |-> << unmarshal >>,
          logs |-> << LogLine("error", FmtParseFailed, <<>>) >>,
          response |-> << WriteHeader(StatusBadRequest) >> ]
    ELSE IF e.fetchErr THEN
        [ err |-> TRUE, subscription |-> [ID |-> "", Customer |-> [ID |-> ""]], customer |-> NoCustomer,
          calls |-> << unmarshal, get >>,
          logs |-> << LogLine("error", FmtFetchFailed, << subscription.Customer.ID >>) >>,
          response |-> << WriteHeader(StatusBadRequest) >> ]
    ELSE
        [ err |-> FALSE, subscription |-> subscription, customer |-> customer,
          calls |-> << unmarshal, get >>,
          logs |-> << LogLine("info", FmtAssociated, << customer.ID, customer.Email >>) >>,
          response |-> << >> ]

\* The pending TODO carried out: the customer's user gets the subscription's state
ApplySubscription_Done(store, event, customer) ==
    [ u \in DOMAIN store |->
        IF store[u].Email = customer.Email
        THEN [ store[u] EXCEPT !.Subscription =
                 IF event.Type = "customer.subscription.deleted" THEN "none" ELSE "active" ]
        ELSE store[u] ]

\* // TODO: handle -- nothing is written to the user service
ApplySubscription(store, event, customer) == store

\* The switch going on to the final WriteHeader after a failed parse or fetch
DispatchEvent_FallThrough(event, e, store) ==
    IF IsSubscriptionEvent(event.Type) THEN
        LET parsed == handleParseSubscription(event, e) IN
        IF parsed.err THEN
            [ response |-> parsed.response \o << WriteHeader(StatusOK) >>,
              calls |-> parsed.calls, logs |-> parsed.logs, reloaded |-> FALSE, store |-> store ]
        ELSE
            [ response |-> parsed.response \o << WriteHeader(StatusOK) >>,
              calls |-> parsed.calls,
              logs |-> parsed.logs \o
                  << LogLine("info", FmtReceived,
                       << event.Type, parsed.subscription.ID, parsed.customer.ID, parsed.customer.Email >>) >>,
              reloaded |-> FALSE,
              store |-> ApplySubscription(store, event, parsed.customer) ]
    ELSE
        [ response |-> << WriteHeader(StatusOK) >>, calls |-> << >>,
          logs |-> << LogLine("warn", FmtNoHandler, << event.Type >>) >>,
          reloaded |-> FALSE, store |-> store ]

\* switch event.Type { ... }; w.WriteHeader(http.StatusOK)
DispatchEvent(event, e, store) ==
    IF IsSubscriptionEvent(event.Type) THEN
        LET parsed == handleParseSubscription(event, e) IN
        IF parsed.err THEN
            [ response |-> parsed.response,
              calls |-> parsed.calls, logs |-> parsed.logs, reloaded |-> FALSE, store |-> store ]
        ELSE
            [ response |-> parsed.response \o << WriteHeader(StatusOK) >>,
              calls |-> parsed.calls,
              logs |-> parsed.logs \o
                  << LogLine("info", FmtReceived,
                       << event.Type, parsed.subscription.ID, parsed.customer.ID, parsed.customer.Email >>) >>,
              reloaded |-> FALSE,
              store |-> ApplySubscription(store, event, parsed.customer) ]
    ELSE
        [ response |-> << WriteHeader(StatusOK) >>, calls |-> << >>,
          logs |-> << LogLine("warn", FmtNoHandler, << event.Type >>) >>,
          reloaded |-> FALSE, store |-> store ]

\* func (h *SubscriptionHandler) PostWebhook(w, r)
PostWebhook(cfg, req, e, store) ==
    LET readAll     == Call("ioutil.ReadAll", [Limit |-> MaxBodyBytes])
        construct   == Call("webhook.ConstructEventWithOptions",
                            [Signature |-> req.signature, Secret |-> cfg.StripeEndpointSecret,
                             IgnoreAPIVersionMismatch |-> TRUE])
        constructed == ConstructEvent(req.event, req.signature, cfg.StripeEndpointSecret)
        dispatched  == DispatchEvent(constructed.event, e, store)
    IN
    IF ReadAllFails(req) THEN
        [ response |-> << WriteHeader(StatusServiceUnavailable) >>,
          calls |-> << readAll >>,
          logs |-> << LogLine("error", FmtReadFailed, <<>>) >>,
          reloaded |-> FALSE, store |-> store ]
    ELSE IF VerificationFailed(constructed) THEN
        [ response |-> << WriteHeader(StatusBadRequest) >>,
          calls |-> << readAll, construct >>,
          logs |-> << LogLine("error", FmtVerifyFailed, <<>>) >>,
          reloaded |-> FALSE, store |-> store ]
    ELSE
        [ dispatched EXCEPT !.calls = << readAll, construct >> \o @ ]

(***************************************************************************)
(* GetCheckoutSuccess, GetCheckoutCancel                                   *)
(***************************************************************************)
MsgSubscribed == "you have successfully subscribed to Wakapi!"

\* func (h *SubscriptionHandler) GetCheckoutSuccess(w, r)
GetCheckoutSuccess(cfg) ==
    [ NoOutcome EXCEPT !.response =
        << Redirect(cfg.BasePath \o "/settings?success=" \o MsgSubscribed \o "#subscription", StatusFound) >> ]

\* func (h *SubscriptionHandler) GetCheckoutCancel(w, r)
GetCheckoutCancel(cfg) ==
    [ NoOutcome EXCEPT !.response =
        << Redirect(cfg.BasePath \o "/settings#subscription", StatusFound) >> ]

(***************************************************************************)
(* RegisterRoutes and the router                                           *)
(***************************************************************************)
\* A route of the router; private routes sit on the subrouter that uses the
\* authentication middleware
Route(method, path, name, private) ==
    [method |-> method, path |-> path, handler |-> name, private |-> private]

\* RegisterRoutes with the checkout route put on the public subrouter
RegisterRoutes_CheckoutPublic(cfg) ==
    IF ~cfg.SubscriptionsEnabled THEN << >>
    ELSE << Route("GET", "/subscription/success", "GetCheckoutSuccess", FALSE),
            Route("GET", "/subscription/cancel", "GetCheckoutCancel", FALSE),
            Route("POST", "/subscription/webhook", "PostWebhook", FALSE),
            Route("POST", "/subscription/checkout", "PostCheckout", FALSE),
            Route("POST", "/subscription/portal", "PostPortal", TRUE) >>

\* func (h *SubscriptionHandler) RegisterRoutes(router)
RegisterRoutes(cfg) ==
    IF ~cfg.SubscriptionsEnabled THEN << >>
    ELSE << Route("GET", "/subscription/success", "GetCheckoutSuccess", FALSE),
            Route("GET", "/subscription/cancel", "GetCheckoutCancel", FALSE),
            Route("POST", "/subscription/webhook", "PostWebhook", FALSE),
            Route("POST", "/subscription/checkout", "PostCheckout", TRUE),
            Route("POST", "/subscription/portal", "PostPortal", TRUE) >>

\* The router's match: the first registered route with the request's path and method
Matching(rs, req) == { i \in 1..Len(rs) : rs[i].path = req.path /\ rs[i].method = req.method }

NoRoute == Route("", "", "NotFound", FALSE)

Match(rs, req) ==
    IF Matching(rs, req) = {} THEN NoRoute
    ELSE rs[CHOOSE i \in Matching(rs, req) : \A j \in Matching(rs, req) : i <= j]

\* The authentication middleware lets a request through when it carries a principal
Authenticated(req) == req.principal.Authenticated

\* Which handler a request reaches
Reaches(rs, req) ==
    LET r == Match(rs, req) IN
    IF r.private /\ ~Authenticated(req) THEN "AuthenticateMiddleware" ELSE r.handler

(***************************************************************************)
(* Requests and provider answers                                           *)
(***************************************************************************)
NoBody == [bodyLen |-> 0, readErr |-> FALSE, signature |-> NoSignature, event |-> NoEvent]

\* A body of no bytes carries no event
Bodies ==
    { b \in [bodyLen : BodySizes, readErr : BOOLEAN, signature : Signatures, event : Events] :
        b.bodyLen = 0 => b.event = NoEvent }

Request(method, path, principal, formOk, body) ==
    [ method |-> method, path |-> path, principal |-> principal, formOk |-> formOk,
      bodyLen |-> body.bodyLen, readErr |-> body.readErr,
      signature |-> body.signature, event |-> body.event ]

BrowserRequests ==
    { Request(m, p, u, f, NoBody) :
        m \in Methods, p \in Paths, u \in Principals \cup {NoPrincipal}, f \in BOOLEAN }

ProviderRequests ==
    { Request("POST", p, NoPrincipal, TRUE, b) : p \in Paths, b \in Bodies }

Requests == BrowserRequests \cup ProviderRequests

NoEnv == [none |-> TRUE]
CheckoutEnvs == [checkoutErr : BOOLEAN, sessionUrl : SessionUrls]
PortalEnvs(email) ==
    [ searchErr : BOOLEAN,
      searchResults : SeqsUpTo({ Customer(c, email) : c \in CustomerIds }, MaxResults),
      portalErr : BOOLEAN,
      sessionUrl : SessionUrls ]
WebhookEnvs == [fetchErr : BOOLEAN, customerEmail : {"a@b.com", "x@y.org"}]

Configs ==
    [ SubscriptionsEnabled : BOOLEAN,
      IsDev : BOOLEAN,
      BasePath : BasePaths,
      PublicUrl : PublicUrls,
      StandardPriceId : PriceIds,
      StripeEndpointSecret : EndpointSecrets ]

(***************************************************************************)
(* The state machine                                                       *)
(***************************************************************************)
Init ==
    /\ config \in Configs
    /\ registered = FALSE
    /\ routes = << >>
    /\ userStore = [ u \in {"u1", "u2"} |->
                       [ Email |-> IF u = "u1" THEN "" ELSE "a@b.com", Subscription |-> "none" ] ]
    /\ handler = "idle"
    /\ request = Request("", "", NoPrincipal, TRUE, NoBody)
    /\ env = NoEnv
    /\ response = << >>
    /\ calls = << >>
    /\ logs = << >>
    /\ reloaded = FALSE

\* The outcome of a handler becomes the request-scoped state
Served(name, req, e, out) ==
    /\ handler' = name
    /\ request' = req
    /\ env' = e
    /\ response' = out.response
    /\ calls' = out.calls
    /\ logs' = out.logs
    /\ reloaded' = out.reloaded

DoRegisterRoutes ==
    /\ ~registered
    /\ registered' = TRUE
    /\ routes' = routes \o RegisterRoutes(config)
    /\ UNCHANGED <<config, userStore, handler, request, env, response, calls, logs, reloaded>>

ServeGetCheckoutSuccess ==
    /\ registered /\ handler = "idle"
    /\ \E req \in Requests :
        /\ Reaches(routes, req) = "GetCheckoutSuccess"
        /\ Served("GetCheckoutSuccess", req, NoEnv, GetCheckoutSuccess(config))
    /\ UNCHANGED <<config, registered, routes, userStore>>

ServeGetCheckoutCancel ==
    /\ registered /\ handler = "idle"
    /\ \E req \in Requests :
        /\ Reaches(routes, req) = "GetCheckoutCancel"
        /\ Served("GetCheckoutCancel", req, NoEnv, GetCheckoutCancel(config))
    /\ UNCHANGED <<config, registered, routes, userStore>>

ServePostCheckout ==
    /\ registered /\ handler = "idle"
    /\ \E req \in Requests, e \in CheckoutEnvs :
        /\ Reaches(routes, req) = "PostCheckout"
        /\ Served("PostCheckout", req, e, PostCheckout(config, req.principal, req, e))
    /\ UNCHANGED <<config, registered, routes, userStore>>

ServePostPortal ==
    /\ registered /\ handler = "idle"
    /\ \E req \in Requests :
        /\ Reaches(routes, req) = "PostPortal"
        /\ \E e \in PortalEnvs(req.principal.Email) :
            Served("PostPortal", req, e, PostPortal(config, req.principal, req, e))
    /\ UNCHANGED <<config, registered, routes, userStore>>

ServePostWebhook ==
    /\ registered /\ handler = "idle"
    /\ \E req \in Requests, e \in WebhookEnvs :
        /\ Reaches(routes, req) = "PostWebhook"
        /\ LET out == PostWebhook(config, req, e, userStore) IN
            /\ Served("PostWebhook", req, e, out)
            /\ userStore' = out.store
    /\ UNCHANGED <<config, registered, routes>>

\* The authentication middleware answers a request without a principal itself
ServeUnauthenticated ==
    /\ registered /\ handler = "idle"
    /\ \E req \in Requests :
        /\ Reaches(routes, req) = "AuthenticateMiddleware"
        /\ Served("AuthenticateMiddleware", req, NoEnv,
                  [NoOutcome EXCEPT !.response = << Redirect("defaultErrorRedirectTarget", StatusFound) >>])
    /\ UNCHANGED <<config, registered, routes, userStore>>

\* No subscription route matches the request
ServeNotFound ==
    /\ registered /\ handler = "idle"
    /\ \E req \in Requests :
        /\ Reaches(routes, req) = "NotFound"
        /\ Served("NotFound", req, NoEnv, [NoOutcome EXCEPT !.response = << WriteHeader(404) >>])
    /\ UNCHANGED <<config, registered, routes, userStore>>

\* The request is over: its writer, calls and log context are dropped
Finish ==
    /\ handler # "idle"
    /\ handler' = "idle"
    /\ request' = Request("", "", NoPrincipal, TRUE, NoBody)
    /\ env' = NoEnv
    /\ response' = << >>
    /\ calls' = << >>
    /\ logs' = << >>
    /\ reloaded' = FALSE
    /\ UNCHANGED <<config, registered, routes, userStore>>

Next ==
    \/ DoRegisterRoutes
    \/ ServeGetCheckoutSuccess
    \/ ServeGetCheckoutCancel
    \/ ServePostCheckout
    \/ ServePostPortal
    \/ ServePostWebhook
    \/ ServeUnauthenticated
    \/ ServeNotFound
    \/ Finish

Spec == Init /\ [][Next]_vars

(***************************************************************************)
(* Properties                                                              *)
(***************************************************************************)
ProviderOps == {"checkout.session.New", "customer.Search", "billingportal.session.New"}

CallsOf(op) == { i \in 1..Len(calls) : calls[i].op = op }
LogsOf(format) == { i \in 1..Len(logs) : logs[i].format = format }
StatusesWritten == { response[i].status : i \in 1..Len(response) }

ErrorMessages == {MsgMissingEmail, MsgMissingForm, MsgWentWrong, MsgNoSubscription}

\* The URL is the settings page with an error query parameter
IsSettingsErrorUrl(url) ==
    \E m \in ErrorMessages : url = config.BasePath \o "/settings?error=" \o m \o "#subscription"

Interactive == handler \in {"PostCheckout", "PostPortal"}

\* The webhook request's body was read and its signature verified
WebhookVerified ==
    /\ handler = "PostWebhook"
    /\ ~request.readErr /\ request.bodyLen <= 65536
    /\ ~ConstructEvent(request.event, request.signature, config.StripeEndpointSecret).err

Recognized == request.event.Type \in SubscriptionEventTypes

\* C1: a checkout or portal request of a principal with an empty e-mail is
\* answered by one redirect to the settings page with an error parameter, and
\* no provider operation is invoked on it.
C1_EmptyEmailNeverCallsProvider ==
    (Interactive /\ request.principal.Email = "") =>
        /\ Len(response) = 1
        /\ response[1].status = 302
        /\ IsSettingsErrorUrl(response[1].location)
        /\ \A i \in 1..Len(calls) : calls[i].op \notin ProviderOps

C1_Witness ==
    /\ handler = "PostCheckout"
    /\ request.principal.Authenticated /\ request.principal.Email = ""
    /\ request.formOk
    /\ Len(response) = 1 /\ response[1].status = 302

\* C2: a webhook request whose body exceeds 65536 bytes or cannot be read is
\* answered 503 and nothing else, and neither signature verification nor the
\* payload parse nor the customer fetch is attempted.
C2_OversizedBodyIs503 ==
    (handler = "PostWebhook" /\ (request.bodyLen > 65536 \/ request.readErr)) =>
        /\ response = << WriteHeader(503) >>
        /\ CallsOf("webhook.ConstructEventWithOptions") = {}
        /\ CallsOf("json.Unmarshal") = {}
        /\ CallsOf("customer.Get") = {}

C2_Witness ==
    /\ handler = "PostWebhook"
    /\ request.bodyLen = 65537 /\ ~request.readErr
    /\ request.signature = [key |-> config.StripeEndpointSecret, fresh |-> TRUE]
    /\ request.event.wellFormed
    /\ response = << WriteHeader(503) >>

\* C3: a webhook request whose body was read but whose signature fails
\* verification is answered 400 and nothing else, with no payload parse, no
\* customer fetch, no other log line; and a customer fetch is made only after
\* a verification that succeeded.
C3_BadSignatureIs400 ==
    /\ ( /\ handler = "PostWebhook"
         /\ ~request.readErr /\ request.bodyLen <= 65536
         /\ ConstructEvent(request.event, request.signature, config.StripeEndpointSecret).err )
       => /\ response = << WriteHeader(400) >>
          /\ CallsOf("customer.Get") = {}
          /\ CallsOf("json.Unmarshal") = {}
          /\ Len(logs) = 1 /\ logs[1].format = FmtVerifyFailed
    /\ \A i \in CallsOf("customer.Get") :
          /\ WebhookVerified
          /\ \E j \in CallsOf("webhook.ConstructEventWithOptions") : j < i

C3_Witness ==
    /\ handler = "PostWebhook"
    /\ request.bodyLen = 65536 /\ ~request.readErr
    /\ request.event.wellFormed /\ Recognized /\ request.event.Raw.parses
    /\ request.signature = [key |-> "whsec_other", fresh |-> TRUE]
    /\ response = << WriteHeader(400) >>

\* C4 as stated: every verified event of a recognized subscription type logs
\* exactly one association line, is answered 200, and changes no persisted state.
C4_Original ==
    [][ (WebhookVerified' /\ Recognized') =>
            /\ Cardinality(LogsOf(FmtAssociated)') = 1
            /\ response' = << WriteHeader(200) >>
            /\ userStore' = userStore ]_vars

\* C4 (amended): a verified event of a recognized subscription type whose
\* payload parses and whose customer fetch succeeds logs exactly one
\* association line, is answered 200 and nothing else, and the request leaves
\* the persisted users unchanged.
C4_Amended ==
    [][ (WebhookVerified' /\ Recognized' /\ request'.event.Raw.parses /\ ~env'.fetchErr) =>
            /\ Cardinality(LogsOf(FmtAssociated)') = 1
            /\ response' = << WriteHeader(200) >>
            /\ userStore' = userStore ]_vars

C4_Witness ==
    /\ WebhookVerified /\ Recognized
    /\ request.event.Raw.parses /\ ~env.fetchErr
    /\ env.customerEmail = "a@b.com"
    /\ Cardinality(LogsOf(FmtAssociated)) = 1
    /\ response = << WriteHeader(200) >>

\* C5: a verified event of any other type is answered 200 and nothing else,
\* logs one warning and nothing else, and makes no payload parse and no
\* customer fetch.
C5_UnrecognizedIsIgnored ==
    (WebhookVerified /\ ~Recognized) =>
        /\ response = << WriteHeader(200) >>
        /\ Len(logs) = 1 /\ logs[1].level = "warn" /\ logs[1].format = FmtNoHandler
        /\ LogsOf(FmtAssociated) = {}
        /\ CallsOf("json.Unmarshal") = {}
        /\ CallsOf("customer.Get") = {}

C5_Witness ==
    /\ WebhookVerified
    /\ request.event.Type = "customer.created" /\ request.event.Raw.parses
    /\ response = << WriteHeader(200) >>

\* C6 as stated: for a principal with an e-mail the provider gets one checkout
\* request in subscription mode for the configured price, with the success and
\* cancel URLs made of the public URL and /subscription/success, /subscription/cancel.
C6_Original ==
    (handler = "PostCheckout" /\ request.principal.Email # "") =>
        /\ Len(calls) = 1
        /\ calls[1].op = "checkout.session.New"
        /\ calls[1].params.Mode = "subscription"
        /\ calls[1].params.LineItems = << [Price |-> config.StandardPriceId, Quantity |-> 1] >>
        /\ calls[1].params.SuccessURL = config.PublicUrl \o "/subscription/success"
        /\ calls[1].params.CancelURL = config.PublicUrl \o "/subscription/cancel"

\* C6 (amended): for a principal with an e-mail whose form parses, the
\* provider gets one checkout request in subscription mode with the single
\* line item (configured price, quantity 1), and the success and cancel URLs
\* are the public URL, then the configured base path, then
\* /subscription/success and /subscription/cancel.
C6_Amended ==
    (handler = "PostCheckout" /\ request.principal.Email # "" /\ request.formOk) =>
        /\ Len(calls) = 1
        /\ calls[1].op = "checkout.session.New"
        /\ calls[1].params.Mode = "subscription"
        /\ calls[1].params.LineItems = << [Price |-> config.StandardPriceId, Quantity |-> 1] >>
        /\ calls[1].params.SuccessURL =
              config.PublicUrl \o config.BasePath \o "/subscription/success"
        /\ calls[1].params.CancelURL =
              config.PublicUrl \o config.BasePath \o "/subscription/cancel"

C6_Witness ==
    /\ handler = "PostCheckout"
    /\ request.principal.Email = "a@b.com" /\ request.formOk
    /\ config.PublicUrl = "https://x.test" /\ config.BasePath = "/wakapi"
    /\ Len(calls) = 1
    /\ calls[1].params.SuccessURL = "https://x.test/wakapi/subscription/success"

\* C7: in PostPortal a failed or empty customer search ends in the redirect to
\* the settings page with an error and no portal session request; a portal
\* session is requested only after the search found a customer, for the ID of
\* the first customer of the result; and when the session is created the
\* browser is redirected (303) to its URL.
C7_PortalForFirstCustomer ==
    handler = "PostPortal" =>
        /\ (request.principal.Email # "" /\ (env.searchErr \/ env.searchResults = << >>)) =>
              /\ Len(response) = 1 /\ response[1].status = 302
              /\ IsSettingsErrorUrl(response[1].location)
              /\ CallsOf("billingportal.session.New") = {}
        /\ \A i \in CallsOf("billingportal.session.New") :
              /\ ~env.searchErr /\ Len(env.searchResults) > 0
              /\ \E j \in CallsOf("customer.Search") : j < i
              /\ calls[i].params.Customer = env.searchResults[1].ID
        /\ (CallsOf("billingportal.session.New") # {} /\ ~env.portalErr) =>
              response = << Redirect(env.sessionUrl, 303) >>

C7_Witness ==
    /\ handler = "PostPortal"
    /\ ~env.searchErr /\ Len(env.searchResults) = 2
    /\ env.searchResults[1].ID # env.searchResults[2].ID
    /\ ~env.portalErr
    /\ CallsOf("billingportal.session.New") # {}
    /\ response = << Redirect(env.sessionUrl, 303) >>

SessionCalls == CallsOf("checkout.session.New") \cup CallsOf("billingportal.session.New")
SessionFailed ==
    \/ handler = "PostCheckout" /\ env.checkoutErr
    \/ handler = "PostPortal" /\ env.portalErr

C9_NoRetry ==
    Interactive =>
        /\ \A op \in ProviderOps : Cardinality(CallsOf(op)) <= 1
        /\ (SessionCalls # {} /\ SessionFailed) =>
              response = << Redirect(config.BasePath \o "/settings?error=something went wrong#subscription", 302) >>
        /\ \A i \in 1..Len(response) :
              response[i].status = 303 =>
                  /\ SessionCalls # {} /\ ~SessionFailed
                  /\ response[i].location = env.sessionUrl

C9_Witness ==
    /\ handler = "PostCheckout"
    /\ request.principal.Email # "" /\ request.formOk /\ env.checkoutErr
    /\ Cardinality(CallsOf("checkout.session.New")) = 1
    /\ Len(response) = 1 /\ response[1].status = 302

\* C10: with subscriptions enabled the router exposes exactly GET
\* /subscription/success, GET /subscription/cancel and POST
\* /subscription/webhook outside the authentication middleware and POST
\* /subscription/checkout and POST /subscription/portal behind it, so
\* PostCheckout and PostPortal run only for an authenticated request and the
\* middleware never answers for a public route; with subscriptions disabled no
\* route is registered and no handler runs.
PublicRoutes ==
    { <<"GET", "/subscription/success", "GetCheckoutSuccess">>,
      <<"GET", "/subscription/cancel", "GetCheckoutCancel">>,
      <<"POST", "/subscription/webhook", "PostWebhook">> }
PrivateRoutes ==
    { <<"POST", "/subscription/checkout", "PostCheckout">>,
      <<"POST", "/subscription/portal", "PostPortal">> }
Exposed(private) ==
    { <<routes[i].method, routes[i].path, routes[i].handler>> :
        i \in { j \in 1..Len(routes) : routes[j].private = private } }

C10_RoutesAndAuthentication ==
    /\ (registered /\ config.SubscriptionsEnabled) =>
          /\ Exposed(FALSE) = PublicRoutes
          /\ Exposed(TRUE) = PrivateRoutes
    /\ ~config.SubscriptionsEnabled =>
          /\ routes = << >>
          /\ handler \in {"idle", "NotFound"}
    /\ Interactive => request.principal.Authenticated
    /\ \A r \in PublicRoutes \cup PrivateRoutes :
          handler = r[3] => (request.method = r[1] /\ request.path = r[2])
    /\ handler = "AuthenticateMiddleware" =>
          /\ ~request.principal.Authenticated
          /\ <<request.method, request.path>> \in { <<r[1], r[2]>> : r \in PrivateRoutes }

C10_Witness ==
    /\ handler = "AuthenticateMiddleware"
    /\ request.method = "POST" /\ request.path = "/subscription/checkout"
    /\ ~request.principal.Authenticated
    /\ response = << Redirect("defaultErrorRedirectTarget", 302) >>

====
